---- MODULE Spec2Model ----
(***************************************************************************)
(* replibyte/src/main.rs as a state machine.                               *)
(*                                                                         *)
(* Two threads: main (configuration, dispatch of the subcommand, the Task  *)
(* it runs on its own thread) and the detached progress worker             *)
(* show_progress_bar, connected by mpsc::sync_channel.  The process ends   *)
(* when main returns or panics; a detached worker ends with it.            *)
(*                                                                         *)
(* Bridge (S3), Task (FullBackupTask / FullRestoreTask), Backup and Config *)
(* live in the crate's other modules (bridge, tasks, config); what they do *)
(* is taken from the design document, sections 3, 4.3 and 4.4.             *)
(***************************************************************************)
EXTENDS Integers, Sequences, FiniteSets, TLC

VARIABLES
    args,                   \* CLI::parse(): subcommand and its options
    config,                 \* Config: the optional source and destination blocks
    catalog,                \* the index file held by the object storage
    catalog0,               \* the catalog as it was when the process started
    pc,                     \* position of main
    outcome,                \* how the process ended ("running" while it has not)
    bridge,                 \* S3: compression flag, encryption key, init() done
    worker_spawned,         \* thread::spawn(show_progress_bar) happened
    chan,                   \* messages buffered in the sync_channel
    style_is_progress_bar,  \* show_progress_bar local
    w_max_bytes,            \* show_progress_bar local _max_bytes
    last_transferred_bytes, \* show_progress_bar local
    recv,                   \* result of the worker's last try_recv
    task,                   \* the Task main constructed, if any
    tasks_run,              \* number of Task::run invocations
    options,                \* ReadOptions handed to FullRestoreTask
    uri,                    \* ConnectionUri variant connection_uri() returned
    stdout,                 \* lines printed by println!
    rows,                   \* table rows printed by list_backups
    sent_log,               \* every message tx_pb.send was invoked with and accepted
    recv_log                \* every message try_recv returned

vars == <<args, config, catalog, catalog0, pc, outcome, bridge, worker_spawned,
          chan, style_is_progress_bar, w_max_bytes, last_transferred_bytes, recv,
          task, tasks_run, options, uri, stdout, rows, sent_log, recv_log>>

----------------------------------------------------------------------------
(* Bounds of the model *)

\* sync_channel capacity; main.rs:161 sets 1000, scaled down so that the
\* producer actually meets a full channel.
ChannelCap == 2
\* chunks one Task transfers at most
MaxChunks == 3
\* epoch_millis() at the time of the listing / of a backup's completion
Now == 3
\* the total a Task announces when it knows it (max_bytes > 0)
KnownTotal == 4

----------------------------------------------------------------------------
(* Inputs *)

None == "none"

Compressions == {None, "some_true", "some_false"}
SourceKeys == {None, "ks"}
DestinationKeys == {None, "kd"}

NoBlock == [present |-> FALSE, compression |-> None, encryption_key |-> None]

SourceBlocks ==
    {NoBlock} \cup [present : {TRUE}, compression : Compressions,
                    encryption_key : SourceKeys]

DestinationBlocks ==
    {NoBlock} \cup [present : {TRUE}, compression : Compressions,
                    encryption_key : DestinationKeys]

Configs == [source : SourceBlocks, destination : DestinationBlocks]

\* sizes, in bytes, of the chunks a Task moves; 0 leaves transferred_bytes as it was
ChunkSizes == {0, 1}

SourceTypes == {None, "postgres", "postgresql", "mysql"}
Selectors == {"latest", "Latest", "a", "zz"}

NoArgs == [source_type |-> None, output |-> FALSE, value |-> None]

Args ==
    {[cmd |-> "backup_list"] @@ NoArgs, [cmd |-> "transformer_list"] @@ NoArgs}
    \cup {[cmd |-> "backup_run", source_type |-> s] @@ NoArgs : s \in SourceTypes}
    \cup {[cmd |-> "restore", output |-> o, value |-> v] @@ NoArgs :
            o \in BOOLEAN, v \in Selectors}

\* directory_name is a string; NameRank is its place in the string order
NameRank == [n \in {"a", "b", "c", "new"} |-> CASE n = "a" -> 1 [] n = "b" -> 2
                                                [] n = "c" -> 3 [] OTHER -> 4]

MkBackup(n, t) ==
    [directory_name |-> n, size |-> 1, created_at |-> t,
     compressed |-> TRUE, encrypted |-> FALSE]

\* name order and creation order disagree: "c" is the oldest, "a" and "b" tie
BackupPool == {MkBackup("c", 1), MkBackup("a", 2), MkBackup("b", 2)}

RECURSIVE Perms(_)
Perms(S) ==
    IF S = {} THEN {<<>>}
    ELSE UNION {{<<x>> \o p : p \in Perms(S \ {x})} : x \in S}

\* every order of every subset of the pool
Catalogs == UNION {Perms(S) : S \in SUBSET BackupPool}

\* the catalogs a transfer starts from: empty, or two backups, the newest first
TransferCatalogs == {<<>>, <<MkBackup("a", 2), MkBackup("c", 1)>>}

----------------------------------------------------------------------------
(* Backup ordering and the Bridge, from spec.md sections 3 and 4.3 *)

\* Backup's Ord: by creation time, ties by directory_name
BackupCmp(a, b) ==
    IF a.created_at < b.created_at THEN "Less"
    ELSE IF a.created_at > b.created_at THEN "Greater"
    ELSE IF NameRank[a.directory_name] < NameRank[b.directory_name] THEN "Less"
    ELSE IF NameRank[a.directory_name] > NameRank[b.directory_name] THEN "Greater"
    ELSE "Equal"

\* Ordering::reverse
Reverse(o) == IF o = "Less" THEN "Greater" ELSE IF o = "Greater" THEN "Less" ELSE o

set_compression(b, v) == [b EXCEPT !.compression = v]

set_encryption_key(b, k) == [b EXCEPT !.encryption_key = k]

\* S3::new: nothing initialised, no key; the compression default is S3's own
S3New(dflt) == [compression |-> dflt, encryption_key |-> None, initialised |-> FALSE]

\* the newest Backup of a non-empty catalog
RECURSIVE Newest(_)
Newest(cat) ==
    IF Len(cat) = 1 THEN cat[1]
    ELSE LET n == Newest(Tail(cat))
         IN  IF BackupCmp(cat[1], n) = "Greater" THEN cat[1] ELSE n

\* Bridge.read(options): the directory_name it reads, None when the lookup fails
ReadResolve(opt, cat) ==
    IF opt.kind = "Latest"
    THEN IF cat = <<>> THEN None ELSE Newest(cat).directory_name
    ELSE IF \E i \in 1..Len(cat) : cat[i].directory_name = opt.name
         THEN opt.name ELSE None

\* Bridge.write: the Backup recorded once the whole stream is stored
WrittenBackup(b, size) ==
    [directory_name |-> "new", size |-> size, created_at |-> Now,
     compressed |-> b.compression, encrypted |-> b.encryption_key # None]

----------------------------------------------------------------------------
(* main: configuration of the Bridge (main.rs 137-159) *)

\* Option<bool>::unwrap_or(true)
UnwrapOrTrue(c) == c # "some_false"

\* fault: the two blocks applied in the other order
MainConfigureBridgeSourceLast(b, cfg) ==
    LET b1 == IF cfg.destination.present
              THEN set_encryption_key(
                       set_compression(b, UnwrapOrTrue(cfg.destination.compression)),
                       cfg.destination.encryption_key)
              ELSE b
    IN  IF cfg.source.present
        THEN set_encryption_key(
                 set_compression(b1, UnwrapOrTrue(cfg.source.compression)),
                 cfg.source.encryption_key)
        ELSE b1

\* the source block is applied first, the destination block after it
MainConfigureBridge(b, cfg) ==
    LET b1 == IF cfg.source.present
              THEN set_encryption_key(
                       set_compression(b, UnwrapOrTrue(cfg.source.compression)),
                       cfg.source.encryption_key)
              ELSE b
    IN  IF cfg.destination.present
        THEN set_encryption_key(
                 set_compression(b1, UnwrapOrTrue(cfg.destination.compression)),
                 cfg.destination.encryption_key)
        ELSE b1

\* the `?` of lines 138-142, 148 and 156: which of them can return early
ConfigureFailures(cfg) ==
    {"none", "err_bridge_config"}
    \cup (IF cfg.source.present /\ cfg.source.encryption_key # None
          THEN {"err_encryption_key"} ELSE {})
    \cup (IF cfg.destination.present /\ cfg.destination.encryption_key # None
          THEN {"err_encryption_key"} ELSE {})

----------------------------------------------------------------------------
(* main: dispatch helpers *)

\* fault: the absence of the block goes unnoticed
BlockMissingIgnored(block) == FALSE

\* lines 182-183/271 and 284-285/341: the block the subcommand needs is absent
BlockMissing(block) == ~block.present

\* lines 165-171: the worker is spawned unless restore runs with output = true
ProgressWorkerWanted(a) == ~(a.cmd = "restore" /\ a.output)

\* fault: the selector compared without regard to case
ReadOptionsOfAnyCase(v) ==
    IF v \in {"latest", "Latest"} THEN [kind |-> "Latest", name |-> None]
    ELSE [kind |-> "Backup", name |-> v]

\* lines 286-291
ReadOptionsOf(v) ==
    IF v = "latest" THEN [kind |-> "Latest", name |-> None]
    ELSE [kind |-> "Backup", name |-> v]

NoOptions == [kind |-> None, name |-> None]

\* fault: direct output wired to the channel like the other restores
RestoreCallbackAlwaysChannel(a) == "channel"

\* lines 293-296 and 312/335: the callback handed to FullRestoreTask::run
RestoreCallback(a) == IF a.output THEN "noop" ELSE "channel"

\* lines 224-226 and 314-316: todo!() panics
MysqlArm == "panic"

UriResults == {"Postgres", "Mysql", "MongoDB", "Invalid"}

SuccessLine(a) == IF a.cmd = "backup_run" THEN "Backup successful!" ELSE "Restore successful!"

EmptyNotice == "<empty> no backups available"

\* fault: the confirmation printed whatever task.run returned
PrintedAfterRunAlways(a, result, out) ==
    IF ~(a.cmd = "restore" /\ a.output)
    THEN Append(out, SuccessLine(a)) ELSE out

\* lines 222/245/259 + 269, 296-297, 312/335 + 339: what main prints once
\* task.run has returned `result`
PrintedAfterRun(a, result, out) ==
    IF result = "Ok" /\ ~(a.cmd = "restore" /\ a.output)
    THEN Append(out, SuccessLine(a)) ELSE out

NoTask ==
    [state |-> "None", callback |-> "noop", transferred |-> 0, max_bytes |-> 0,
     chunks |-> 0, pending |-> FALSE, reading |-> None]

\* Task::new followed by run(): the Task is Running
StartedTask(cb, mx, rd) ==
    [state |-> "Running", callback |-> cb, transferred |-> 0, max_bytes |-> mx,
     chunks |-> 0, pending |-> FALSE, reading |-> rd]

----------------------------------------------------------------------------
(* list_backups (main.rs 50-79) *)

\* fault: the comparison not reversed
ListOrderOldestFirst(a, b) == BackupCmp(a, b)

\* line 59: a.cmp(b).reverse()
ListOrder(a, b) == Reverse(BackupCmp(a, b))

\* sort_by is a stable sort: x goes after every element not ordered after it
RECURSIVE InsertSorted(_, _)
InsertSorted(x, s) ==
    IF s = <<>> THEN <<x>>
    ELSE IF ListOrder(x, Head(s)) = "Less" THEN <<x>> \o s
    ELSE <<Head(s)>> \o InsertSorted(x, Tail(s))

RECURSIVE SortBy(_)
SortBy(s) ==
    IF s = <<>> THEN <<>>
    ELSE InsertSorted(s[Len(s)], SortBy(SubSeq(s, 1, Len(s) - 1)))

\* lines 66-74: one row per backup
Row(b) ==
    [name |-> b.directory_name, size |-> b.size, age |-> Now - b.created_at,
     compressed |-> b.compressed, encrypted |-> b.encrypted]

ListRows(cat) == LET s == SortBy(cat) IN [i \in 1..Len(s) |-> Row(s[i])]

\* transformers(): id and description of each
TransformerRows ==
    <<[name |-> "email", description |-> "d1"], [name |-> "random", description |-> "d2"]>>

----------------------------------------------------------------------------
(* The progress channel and the worker (main.rs 81-116, 161-175) *)

\* fault: an unbounded channel, send never waits
CanSendUnbounded(ch) == TRUE

\* SyncSender::send on sync_channel(cap) blocks while cap messages are buffered
CanSend(ch) == Len(ch) < ChannelCap

\* fault: nothing pending shown as nothing transferred
PolledResetting(ch, last, mx) == IF ch # <<>> THEN Head(ch) ELSE <<0, mx>>

\* lines 90-93: the message try_recv returns, else the last known values
Polled(ch, last, mx) == IF ch # <<>> THEN Head(ch) ELSE <<last, mx>>

\* lines 95-104: the style flag follows _max_bytes as it was before this poll
StyleAfter(mx, style) ==
    IF mx = 0 /\ style THEN FALSE
    ELSE IF mx > 0 /\ ~style THEN TRUE
    ELSE style

----------------------------------------------------------------------------
(* Initial states: the process starts with its arguments parsed *)

Init ==
    /\ args \in Args
    /\ config \in Configs
    /\ catalog \in (IF args.cmd = "backup_list" THEN Catalogs ELSE TransferCatalogs)
    /\ catalog0 = catalog
    /\ pc = "open_config"
    /\ outcome = "running"
    /\ bridge = S3New(FALSE)          \* not constructed before line 137
    /\ worker_spawned = FALSE
    /\ chan = <<>>
    /\ style_is_progress_bar = FALSE
    /\ w_max_bytes = 0
    /\ last_transferred_bytes = 0
    /\ recv = None
    /\ task = NoTask
    /\ tasks_run = 0
    /\ options = NoOptions
    /\ uri = None
    /\ stdout = <<>>
    /\ rows = <<>>
    /\ sent_log = <<>>
    /\ recv_log = <<>>

workerVars == <<style_is_progress_bar, w_max_bytes, last_transferred_bytes, recv, recv_log>>
chanVars == <<chan, sent_log>>
inputVars == <<args, config, catalog0>>

\* main returns (or panics) with outcome o: the process is over
Exit(o) == pc' = "exited" /\ outcome' = o

----------------------------------------------------------------------------
(* main *)

\* lines 134-135: File::open(args.config)? and serde_yaml::from_reader(file)?
OpenConfig ==
    /\ pc = "open_config"
    /\ \E ok \in BOOLEAN :
         IF ok THEN pc' = "configure_bridge" /\ UNCHANGED outcome
         ELSE Exit("err_config_file")
    /\ UNCHANGED <<inputVars, catalog, bridge, worker_spawned, chanVars, workerVars,
                   task, tasks_run, options, uri, stdout, rows>>

\* lines 137-159
ConfigureBridge ==
    /\ pc = "configure_bridge"
    /\ \E dflt \in BOOLEAN, f \in ConfigureFailures(config) :
         IF f = "none"
         THEN /\ bridge' = MainConfigureBridge(S3New(dflt), config)
              /\ pc' = "spawn"
              /\ UNCHANGED outcome
         ELSE Exit(f) /\ UNCHANGED bridge
    /\ UNCHANGED <<inputVars, catalog, worker_spawned, chanVars, workerVars,
                   task, tasks_run, options, uri, stdout, rows>>

\* lines 161-175: the channel is created, the worker spawned if wanted
SpawnProgress ==
    /\ pc = "spawn"
    /\ chan' = <<>>
    /\ worker_spawned' = ProgressWorkerWanted(args)
    /\ pc' = "dispatch"
    /\ UNCHANGED <<inputVars, catalog, outcome, bridge, sent_log, workerVars,
                   task, tasks_run, options, uri, stdout, rows>>

\* lines 179-181 and list_backups, lines 50-79
BackupList ==
    /\ pc = "dispatch" /\ args.cmd = "backup_list"
    /\ \E r \in {"ok", "init_error", "index_error"} :
         /\ bridge' = [bridge EXCEPT !.initialised = (r # "init_error")]
         /\ IF r # "ok"
            THEN Exit("err_list") /\ UNCHANGED <<stdout, rows>>
            ELSE /\ Exit("ok")
                 /\ IF catalog = <<>>
                    THEN stdout' = Append(stdout, EmptyNotice) /\ UNCHANGED rows
                    ELSE rows' = ListRows(catalog) /\ UNCHANGED stdout
    /\ UNCHANGED <<inputVars, catalog, worker_spawned, chanVars, workerVars,
                   task, tasks_run, options, uri>>

\* lines 279-283 and list_transformers, lines 119-128
TransformerList ==
    /\ pc = "dispatch" /\ args.cmd = "transformer_list"
    /\ rows' = TransformerRows
    /\ Exit("ok")
    /\ UNCHANGED <<inputVars, catalog, bridge, worker_spawned, chanVars, workerVars,
                   task, tasks_run, options, uri, stdout>>

\* Task::new(..).run(cb) is entered
RunTask(cb, rd) ==
    /\ \E mx \in {0, KnownTotal} : task' = StartedTask(cb, mx, rd)
    /\ tasks_run' = tasks_run + 1
    /\ pc' = "task_run"
    /\ UNCHANGED outcome

\* the arms of `match connection_uri()?` (lines 211-247, 300-337)
ConnectAndRun(cb, rd) ==
    \E u \in UriResults :
      /\ uri' = u
      /\ IF u = "Invalid" THEN Exit("err_connection_uri") /\ UNCHANGED <<task, tasks_run>>
         ELSE IF u = "Mysql" THEN Exit(MysqlArm) /\ UNCHANGED <<task, tasks_run>>
         ELSE RunTask(cb, rd)

\* lines 182-277, up to the call of task.run
BackupRun ==
    /\ pc = "dispatch" /\ args.cmd = "backup_run"
    /\ IF BlockMissing(config.source)
       THEN Exit("err_missing_source") /\ UNCHANGED <<task, tasks_run, uri>>
       ELSE IF args.source_type = None
       THEN ConnectAndRun("channel", None)
       ELSE IF args.source_type \in {"postgres", "postgresql"}
       THEN \E file \in {"absent", "read", "io_error"} :
              IF file = "io_error"
              THEN Exit("err_dump_file") /\ UNCHANGED <<task, tasks_run, uri>>
              ELSE RunTask("channel", None) /\ UNCHANGED uri
       ELSE Exit("err_source_type") /\ UNCHANGED <<task, tasks_run, uri>>
    /\ UNCHANGED <<inputVars, catalog, bridge, worker_spawned, chanVars, workerVars,
                   options, stdout, rows>>

\* lines 284-347, up to the call of task.run
Restore ==
    /\ pc = "dispatch" /\ args.cmd = "restore"
    /\ IF BlockMissing(config.destination)
       THEN Exit("err_missing_destination") /\ UNCHANGED <<task, tasks_run, uri, options>>
       ELSE /\ options' = ReadOptionsOf(args.value)
            /\ IF args.output
               THEN RunTask(RestoreCallback(args), ReadResolve(options', catalog))
                    /\ UNCHANGED uri
               ELSE ConnectAndRun(RestoreCallback(args), ReadResolve(options', catalog))
    /\ UNCHANGED <<inputVars, catalog, bridge, worker_spawned, chanVars, workerVars,
                   stdout, rows>>

----------------------------------------------------------------------------
(* The Task's run, from spec.md section 4.4, with main's progress_callback *)

\* FullRestoreTask reads the backup its options select; a backup always can start
CanTransfer == args.cmd = "backup_run" \/ task.reading # None

\* one chunk moves from the producer side to the consumer side
TaskTransfer ==
    /\ pc = "task_run" /\ task.state = "Running" /\ ~task.pending
    /\ CanTransfer
    /\ task.chunks < MaxChunks
    /\ \E n \in ChunkSizes :
         task' = [task EXCEPT !.transferred = @ + n, !.chunks = @ + 1, !.pending = TRUE]
    /\ bridge' = [bridge EXCEPT !.initialised = TRUE]
    /\ UNCHANGED <<inputVars, catalog, pc, outcome, worker_spawned, chanVars,
                   workerVars, tasks_run, options, uri, stdout, rows>>

\* lines 173-175 (tx_pb.send, blocking while the channel is full) or the
\* closure |_, _| {} of line 296
ProgressCallback ==
    /\ pc = "task_run" /\ task.state = "Running" /\ task.pending
    /\ IF task.callback = "channel"
       THEN /\ CanSend(chan)
            /\ chan' = Append(chan, <<task.transferred, task.max_bytes>>)
            /\ sent_log' = Append(sent_log, <<task.transferred, task.max_bytes>>)
       ELSE UNCHANGED chanVars
    /\ task' = [task EXCEPT !.pending = FALSE]
    /\ UNCHANGED <<inputVars, catalog, pc, outcome, bridge, worker_spawned,
                   workerVars, tasks_run, options, uri, stdout, rows>>

\* run returns Ok: a backup is catalogued; main prints and returns Ok(())
TaskRunOk ==
    /\ pc = "task_run" /\ task.state = "Running" /\ ~task.pending
    /\ CanTransfer
    /\ task' = [task EXCEPT !.state = "Succeeded"]
    /\ bridge' = [bridge EXCEPT !.initialised = TRUE]
    /\ catalog' = IF args.cmd = "backup_run"
                  THEN Append(catalog, WrittenBackup(bridge, task.transferred))
                  ELSE catalog
    /\ stdout' = PrintedAfterRun(args, "Ok", stdout)
    /\ Exit("ok")
    /\ UNCHANGED <<inputVars, worker_spawned, chanVars, workerVars, tasks_run,
                   options, uri, rows>>

\* run returns Err (lookup, connection or transfer failure): `?` returns it
TaskRunErr ==
    /\ pc = "task_run" /\ task.state = "Running" /\ ~task.pending
    /\ task' = [task EXCEPT !.state = "Failed"]
    /\ stdout' = PrintedAfterRun(args, "Err", stdout)
    /\ Exit(IF CanTransfer THEN "err_transfer" ELSE "err_lookup")
    /\ UNCHANGED <<inputVars, catalog, bridge, worker_spawned, chanVars, workerVars,
                   tasks_run, options, uri, rows>>

----------------------------------------------------------------------------
(* show_progress_bar: one iteration of its loop (lines 89-115) *)

ShowProgressBar ==
    /\ worker_spawned /\ outcome = "running"
    /\ LET msg == Polled(chan, last_transferred_bytes, w_max_bytes)
       IN  /\ recv' = IF chan # <<>> THEN "msg" ELSE "empty"
           /\ chan' = IF chan # <<>> THEN Tail(chan) ELSE chan
           /\ recv_log' = IF chan # <<>> THEN Append(recv_log, Head(chan)) ELSE recv_log
           /\ style_is_progress_bar' = StyleAfter(w_max_bytes, style_is_progress_bar)
           /\ w_max_bytes' = msg[2]
           /\ last_transferred_bytes' = msg[1]
    /\ UNCHANGED <<inputVars, catalog, pc, outcome, bridge, worker_spawned, sent_log,
                   task, tasks_run, options, uri, stdout, rows>>

----------------------------------------------------------------------------

Next ==
    \/ OpenConfig
    \/ ConfigureBridge
    \/ SpawnProgress
    \/ BackupList
    \/ TransformerList
    \/ BackupRun
    \/ Restore
    \/ TaskTransfer
    \/ ProgressCallback
    \/ TaskRunOk
    \/ TaskRunErr
    \/ ShowProgressBar

Spec == Init /\ [][Next]_vars

\* the worker's loop never waits: it polls every 50 microseconds
FairSpec == Spec /\ WF_vars(ShowProgressBar)

----------------------------------------------------------------------------
(* Properties *)

Confirmations == {"Backup successful!", "Restore successful!"}

NoConfirmation == \A i \in 1..Len(stdout) : stdout[i] \notin Confirmations

\* main is past lines 137-159 without having returned from them
Configured ==
    \/ pc \in {"spawn", "dispatch", "task_run"}
    \/ pc = "exited"
       /\ outcome \notin {"err_config_file", "err_bridge_config", "err_encryption_key"}

\* C1: the transferred_bytes values the worker observes, poll after poll,
\* never decrease (the Task reports non-decreasing values, the channel is FIFO).
C1_ObservedNonDecreasing ==
    [][last_transferred_bytes' >= last_transferred_bytes]_vars

\* the worker has taken a message and then polled an empty channel
C1_Witness ==
    /\ recv = "empty"
    /\ last_transferred_bytes > 0
    /\ recv_log # <<>>
    /\ task.transferred > last_transferred_bytes

\* C2: when a run with the worker succeeds, the worker's last observed
\* transferred_bytes is the total written and no sent message is left unconsumed.
C2_FinalObservedIsTotal ==
    (pc = "exited" /\ outcome = "ok" /\ worker_spawned /\ task.state = "Succeeded")
        => (last_transferred_bytes = task.transferred /\ chan = <<>>)

\* C3: a MySQL connection URI selected for a transfer ends the run with an
\* explicit not-implemented error value, not with a panic and not successfully.
C3_MysqlIsExplicitError ==
    (uri = "Mysql" /\ pc = "exited")
        => (outcome = "err_not_implemented" /\ NoConfirmation)

\* the block the requested subcommand needs is absent from the configuration
MissingBlock ==
    \/ args.cmd = "backup_run" /\ ~config.source.present
    \/ args.cmd = "restore" /\ ~config.destination.present

MissingBlockError ==
    IF args.cmd = "backup_run" THEN "err_missing_source" ELSE "err_missing_destination"

NothingRunOrWritten ==
    /\ task = NoTask /\ tasks_run = 0
    /\ ~bridge.initialised
    /\ catalog = catalog0
    /\ NoConfirmation

\* C4 as stated: with the needed block missing from a loaded configuration the
\* run fails with the missing-block error, nothing run, initialised or written.
C4_MissingBlockAlwaysThatError ==
    (MissingBlock /\ pc = "exited" /\ outcome # "err_config_file")
        => (outcome = MissingBlockError /\ NothingRunOrWritten)

\* C4 amended: with the needed block missing the run fails, with the
\* missing-block error once the Bridge parameters and the present block's
\* encryption key have resolved and with that resolution's error otherwise;
\* no Task is run, the Bridge is never initialised, the catalog is unchanged
\* and no confirmation is printed.
C4_MissingBlockFails ==
    MissingBlock =>
        /\ NothingRunOrWritten
        /\ pc \in {"open_config", "configure_bridge", "spawn", "dispatch", "exited"}
        /\ pc = "exited" =>
             outcome \in {"err_config_file", "err_bridge_config", "err_encryption_key",
                          MissingBlockError}
        /\ (pc = "exited" /\ Configured) => outcome = MissingBlockError

\* restore with direct output and no destination block
C4_Witness ==
    /\ args.cmd = "restore" /\ args.output /\ ~config.destination.present
    /\ config.source.present
    /\ outcome = "err_missing_destination"

\* C5: once configured, the Bridge carries the destination block's compression
\* (true when unset) and key when that block is present, else the source
\* block's, for every subcommand.
C5_BridgeCarriesLastBlock ==
    Configured =>
        /\ config.destination.present =>
             /\ bridge.compression = (config.destination.compression # "some_false")
             /\ bridge.encryption_key = config.destination.encryption_key
        /\ (config.source.present /\ ~config.destination.present) =>
             /\ bridge.compression = (config.source.compression # "some_false")
             /\ bridge.encryption_key = config.source.encryption_key

\* a backup run whose source block disables compression and sets a key, both
\* overridden by a destination block that leaves them unset
C5_Witness ==
    /\ Configured /\ args.cmd = "backup_run" /\ tasks_run = 1
    /\ config.source.present /\ config.destination.present
    /\ config.source.compression = "some_false" /\ config.source.encryption_key = "ks"
    /\ config.destination.compression = None /\ config.destination.encryption_key = None
    /\ bridge.compression /\ bridge.encryption_key = None

\* C6: in restore with direct output no worker is started and the channel
\* carries nothing: nothing is sent, buffered or received.
C6_DirectOutputNoProgress ==
    (args.cmd = "restore" /\ args.output) =>
        /\ ~worker_spawned
        /\ chan = <<>> /\ sent_log = <<>> /\ recv_log = <<>>
        /\ recv = None

\* a direct-output restore that moved data and succeeded
C6_Witness ==
    /\ args.cmd = "restore" /\ args.output
    /\ task.state = "Succeeded" /\ task.transferred > 0 /\ outcome = "ok"

NameInCatalog(n) == \E i \in 1..Len(catalog) : catalog[i].directory_name = n

\* C7: only the literal "latest" becomes ReadOptions::Latest; any other token is
\* looked up as that exact name, and the restore fails when no entry has it.
C7_SelectorResolution ==
    (args.cmd = "restore" /\ options # NoOptions) =>
        /\ args.value = "latest" => options = [kind |-> "Latest", name |-> None]
        /\ args.value # "latest" => options = [kind |-> "Backup", name |-> args.value]
        /\ (args.value # "latest" /\ ~NameInCatalog(args.value)) =>
             /\ task.transferred = 0 /\ task.state # "Succeeded"
             /\ NoConfirmation
             /\ pc = "exited" => outcome \notin {"ok", "running"}
             /\ (pc = "exited" /\ tasks_run = 1) => outcome = "err_lookup"

\* "Latest" is taken as a name, which no backup carries
C7_Witness ==
    /\ args.cmd = "restore" /\ args.value = "Latest"
    /\ catalog # <<>>
    /\ options = [kind |-> "Backup", name |-> "Latest"]
    /\ outcome = "err_lookup"

RowNames == {rows[i].name : i \in 1..Len(rows)}
CatalogNames == {catalog0[i].directory_name : i \in 1..Len(catalog0)}

C9_ConfirmationOnlyAfterSuccess ==
    /\ tasks_run <= 1
    /\ ~NoConfirmation => (task.state = "Succeeded" /\ outcome = "ok" /\ tasks_run = 1)
    /\ outcome \notin {"running", "ok"} => NoConfirmation
    /\ Len(stdout) <= 1

\* a Task failed in mid-transfer and nothing was printed
C9_Witness ==
    /\ task.state = "Failed" /\ task.transferred > 0
    /\ outcome = "err_transfer" /\ stdout = <<>>

\* the producer is inside progress_callback and the channel is full
Blocked ==
    /\ pc = "task_run" /\ task.state = "Running" /\ task.pending
    /\ task.callback = "channel"
    /\ Len(chan) >= ChannelCap

\* C10: the channel never holds more than its capacity; with the worker alive
\* every message progress_callback was invoked with is enqueued, in order, none
\* dropped; a producer blocked on a full channel always resumes.
C10_Backpressure ==
    /\ [](Len(chan) <= ChannelCap)
    /\ [](worker_spawned => sent_log = recv_log \o chan)
    /\ [](task.callback = "channel" =>
            Len(sent_log) = task.chunks - (IF task.pending THEN 1 ELSE 0))
    /\ (Blocked ~> ~Blocked)

C10_Witness == Blocked /\ worker_spawned

====
